---------------------------- MODULE Spec2Model ----------------------------
(***************************************************************************)
(* The route-pattern parser of yew_router_route_parser (parser/core.rs and *)
(* parser/path.rs), modelled character by character.                       *)
(*                                                                         *)
(* A &str is a sequence of one-character strings.  An IResult is a record  *)
(* whose status is "Ok" (rest = the unconsumed input, out = the value),    *)
(* "Error" (nom::Err::Error; rest and kind are the input and ErrorKind of  *)
(* the innermost entry of the VerboseError) or "Panic" (an expect() on a   *)
(* failed conversion unwinds through every combinator).                    *)
(***************************************************************************)
EXTENDS Integers, Sequences, FiniteSets, TLC

VARIABLES pattern, input, called, result

vars == <<pattern, input, called, result>>

(***************************************************************************)
(* Bounds of the model.                                                    *)
(***************************************************************************)
\* longest pattern, in lexemes, handed to path_parser
MaxUnits == 5
\* longest text, in characters, handed to capture
MaxCaptureLen == 5
\* longest text, in characters, handed to valid_ident_characters
MaxIdentLen == 3
\* largest value of the integer type of `sections`, scaled down so that a
\* digit run within MaxCaptureLen can exceed it
MaxSections == 9

(***************************************************************************)
(* Strings and results.                                                    *)
(***************************************************************************)
Take(s, n) == SubSeq(s, 1, n)

Drop(s, n) == SubSeq(s, n + 1, Len(s))

IsPrefix(p, s) == Len(p) <= Len(s) /\ Take(s, Len(p)) = p

RECURSIVE Flatten(_)
Flatten(ss) == IF ss = <<>> THEN <<>> ELSE Head(ss) \o Flatten(Tail(ss))

SeqsUpTo(S, n) == UNION {[1..k -> S] : k \in 0..n}

Ok(rest, out) == [status |-> "Ok", rest |-> rest, kind |-> "None", out |-> out]

Error(rest, kind) == [status |-> "Error", rest |-> rest, kind |-> kind, out |-> <<>>]

Panic == [status |-> "Panic", rest |-> <<>>, kind |-> "None", out |-> <<>>]

NotCalled == [status |-> "None", rest |-> <<>>, kind |-> "None", out |-> <<>>]

(***************************************************************************)
(* RouteParserToken and CaptureVariant.                                    *)
(***************************************************************************)
NoVariant == [variant |-> "None", name |-> <<>>, sections |-> 0]

Unnamed == [variant |-> "Unnamed", name |-> <<>>, sections |-> 0]

ManyUnnamed == [variant |-> "ManyUnnamed", name |-> <<>>, sections |-> 0]

Named(s) == [variant |-> "Named", name |-> s, sections |-> 0]

ManyNamed(s) == [variant |-> "ManyNamed", name |-> s, sections |-> 0]

NumberedUnnamed(n) == [variant |-> "NumberedUnnamed", name |-> <<>>, sections |-> n]

NumberedNamed(n, s) == [variant |-> "NumberedNamed", name |-> s, sections |-> n]

Separator == [kind |-> "Separator", text |-> <<>>, cv |-> NoVariant, inner |-> <<>>]

Match(s) == [kind |-> "Match", text |-> s, cv |-> NoVariant, inner |-> <<>>]

Capture(v) == [kind |-> "Capture", text |-> <<>>, cv |-> v, inner |-> <<>>]

Optional(ts) == [kind |-> "Optional", text |-> <<>>, cv |-> NoVariant, inner |-> ts]

(***************************************************************************)
(* nom primitives as core.rs and path.rs use them.                         *)
(*                                                                         *)
(* Only({e(x) : x \in {v}}) is e(v) with v evaluated once, as a Rust `let`  *)
(* binds it.                                                               *)
(***************************************************************************)
Only(S) == CHOOSE x \in S : TRUE

tag(t, i) == IF IsPrefix(t, i) THEN Ok(Drop(i, Len(t)), t) ELSE Error(i, "Tag")

is_digit(c) == c \in {"0", "1", "2", "3", "4", "5", "6", "7", "8", "9"}

RECURSIVE SpanLen(_, _)
SpanLen(i, S) == IF i # <<>> /\ Head(i) \in S THEN 1 + SpanLen(Tail(i), S) ELSE 0

RECURSIVE SpanNotLen(_, _)
SpanNotLen(i, S) == IF i # <<>> /\ Head(i) \notin S THEN 1 + SpanNotLen(Tail(i), S) ELSE 0

is_not(S, i) ==
    Only({IF n = 0 THEN Error(i, "IsNot") ELSE Ok(Drop(i, n), Take(i, n)) :
          n \in {SpanNotLen(i, S)}})

digit1(i) ==
    Only({IF n = 0 THEN Error(i, "Digit") ELSE Ok(Drop(i, n), Take(i, n)) :
          n \in {SpanLen(i, {"0", "1", "2", "3", "4", "5", "6", "7", "8", "9"})}})

\* opt(f) applied to f's result on i: Some(x) is <<x>> and None is <<>>; an
\* Error becomes Ok(None), a panic passes through
opt(res, i) ==
    Only({IF r.status = "Error" THEN Ok(i, <<>>)
          ELSE IF r.status = "Ok" THEN Ok(r.rest, <<r.out>>)
          ELSE r :
          r \in {res}})

\* the first of the results rs that is not an Error, else the last Error
RECURSIVE FirstNotError(_)
FirstNotError(rs) ==
    IF Len(rs) = 1 \/ Head(rs).status # "Error" THEN Head(rs)
    ELSE FirstNotError(Tail(rs))

\* alt((f1, ..., fn)) applied to the results of the alternatives
alt(results) == Only({FirstNotError(rs) : rs \in {results}})

(***************************************************************************)
(* parser/core.rs                                                          *)
(***************************************************************************)
\* the character ` (a TLA+ string cannot hold it)
Backquote == "backquote"

INVALID_CHARACTERS ==
    {" ", "-", "*", "/", "+", "#", "?", "&", "^", "@", "~", Backquote, ";", ",", ".",
     "|", "\\", "{", "}", "[", "]", "(", ")", "=", "\t", "\n"}

valid_ident_characters_any_first(i) ==
    IF i = <<>> THEN Error(i, "Eof") ELSE is_not(INVALID_CHARACTERS, i)

valid_ident_characters(i) ==
    IF i = <<>> THEN Error(i, "Eof")
    ELSE IF is_digit(Head(i)) THEN Error(i, "Digit")
    ELSE is_not(INVALID_CHARACTERS, i)

match_specific(i) ==
    Only({IF r.status = "Ok" THEN Ok(r.rest, Match(r.out)) ELSE r :
          r \in {valid_ident_characters(i)}})

DigitValue(c) ==
    CASE c = "0" -> 0 [] c = "1" -> 1 [] c = "2" -> 2 [] c = "3" -> 3
      [] c = "4" -> 4 [] c = "5" -> 5 [] c = "6" -> 6 [] c = "7" -> 7
      [] c = "8" -> 8 [] c = "9" -> 9

\* str::parse on a run of decimal digits, acc the value of the digits read:
\* the value, or -1 for the Err that an out-of-range run gives
RECURSIVE parse(_, _)
parse(ds, acc) ==
    IF ds = <<>> THEN acc
    ELSE Only({IF v > MaxSections THEN -1 ELSE parse(Tail(ds), v) :
               v \in {acc * 10 + DigitValue(Head(ds))}})

\* map(peek(tag("}")), |_| Unnamed)
unnamed_variant(i) ==
    Only({IF r.status = "Ok" THEN Ok(i, Unnamed) ELSE r : r \in {tag(<<"}">>, i)}})

\* map(preceded(tag("*:"), valid_ident_characters), ManyNamed)
many_named_variant(i) ==
    Only({IF t.status # "Ok" THEN t
          ELSE Only({IF r.status = "Ok" THEN Ok(r.rest, ManyNamed(r.out)) ELSE r :
                     r \in {valid_ident_characters(t.rest)}}) :
          t \in {tag(<<"*", ":">>, i)}})

\* map(tag("*"), |_| ManyUnnamed)
many_unnamed_variant(i) ==
    Only({IF r.status = "Ok" THEN Ok(r.rest, ManyUnnamed) ELSE r :
          r \in {tag(<<"*">>, i)}})

\* map(valid_ident_characters, Named)
named_variant(i) ==
    Only({IF r.status = "Ok" THEN Ok(r.rest, Named(r.out)) ELSE r :
          r \in {valid_ident_characters(i)}})

\* the closure of alternative 5, on the digits and the name parsed
numbered_named(d, r) ==
    Only({IF n < 0 THEN Panic ELSE Ok(r.rest, NumberedNamed(n, r.out)) :
          n \in {parse(d.out, 0)}})

\* map(separated_pair(digit1, tag(":"), valid_ident_characters), NumberedNamed)
numbered_named_variant(i) ==
    Only({IF d.status # "Ok" THEN d
          ELSE Only({IF c.status # "Ok" THEN c
                     ELSE Only({IF r.status # "Ok" THEN r ELSE numbered_named(d, r) :
                                r \in {valid_ident_characters(c.rest)}}) :
                     c \in {tag(<<":">>, d.rest)}}) :
          d \in {digit1(i)}})

\* map(digit1, NumberedUnnamed)
numbered_unnamed_variant(i) ==
    Only({IF d.status # "Ok" THEN d
          ELSE Only({IF n < 0 THEN Panic ELSE Ok(d.rest, NumberedUnnamed(n)) :
                     n \in {parse(d.out, 0)}}) :
          d \in {digit1(i)}})

capture_variants_many_unnamed_first(i) ==
    alt(<<unnamed_variant(i), many_unnamed_variant(i), many_named_variant(i),
          named_variant(i), numbered_named_variant(i), numbered_unnamed_variant(i)>>)

capture_variants(i) ==
    alt(<<unnamed_variant(i), many_named_variant(i), many_unnamed_variant(i),
          named_variant(i), numbered_named_variant(i), numbered_unnamed_variant(i)>>)

\* terminated(..., tag("}")) on the variant parsed, then RouteParserToken::Capture
capture_close(v) ==
    Only({IF close.status # "Ok" THEN close ELSE Ok(close.rest, Capture(v.out)) :
          close \in {tag(<<"}">>, v.rest)}})

\* map(delimited(tag("{"), capture_variants, tag("}")), RouteParserToken::Capture)
capture(i) ==
    Only({IF open.status # "Ok" THEN open
          ELSE Only({IF v.status # "Ok" THEN v ELSE capture_close(v) :
                     v \in {capture_variants(open.rest)}}) :
          open \in {tag(<<"{">>, i)}})

(***************************************************************************)
(* parser/path.rs                                                          *)
(***************************************************************************)
separator_token(i) ==
    Only({IF r.status = "Ok" THEN Ok(r.rest, Separator) ELSE r : r \in {tag(<<"/">>, i)}})

next_matcher_always_capture(token, i) == opt(capture(i), i)

\* the match on the last token in match_next_section_matchers: a capture may
\* follow a Match, a Match may follow a capture
next_matcher(token, i) ==
    IF token.kind = "Match" THEN opt(capture(i), i) ELSE opt(match_specific(i), i)

RECURSIVE match_next_section_matchers(_, _)
match_next_section_matchers(i, tokens) ==
    Only({IF t.status # "Ok" THEN t
          ELSE IF t.out # <<>> THEN match_next_section_matchers(t.rest, tokens \o t.out)
          ELSE Ok(i, tokens) :
          t \in {next_matcher(tokens[Len(tokens)], i)}})

RECURSIVE many0_match_or_capture(_)
many0_match_or_capture(i) ==
    Only({IF r.status = "Error" THEN Ok(i, <<>>)
          ELSE IF r.status # "Ok" THEN r
          ELSE Only({IF more.status # "Ok" THEN more
                     ELSE Ok(more.rest, <<r.out>> \o more.out) :
                     more \in {many0_match_or_capture(r.rest)}}) :
          r \in {alt(<<match_specific(i), capture(i)>>)}})

\* many1(alt((match_specific, capture))): no alternation
section_matchers_many1(i) ==
    Only({IF r.status = "Ok" /\ r.out = <<>> THEN Error(i, "Many1") ELSE r :
          r \in {many0_match_or_capture(i)}})

section_matchers(i) ==
    Only({IF r.status # "Ok" THEN r
          ELSE match_next_section_matchers(r.rest, <<r.out>>) :
          r \in {alt(<<match_specific(i), capture(i)>>)}})

inner_path_parser_empty_section(i) ==
    Only({IF sep.status # "Ok" THEN sep
          ELSE Only({IF sections.status = "Panic" THEN sections
                     ELSE IF sections.status = "Error" THEN Ok(sep.rest, <<sep.out>>)
                     ELSE Ok(sections.rest, <<sep.out>> \o sections.out) :
                     sections \in {section_matchers(sep.rest)}}) :
          sep \in {separator_token(i)}})

\* map(pair(separator_token, section_matchers), ...)
inner_path_parser(i) ==
    Only({IF sep.status # "Ok" THEN sep
          ELSE Only({IF sections.status # "Ok" THEN sections
                     ELSE Ok(sections.rest, <<sep.out>> \o sections.out) :
                     sections \in {section_matchers(sep.rest)}}) :
          sep \in {separator_token(i)}})

\* map(many0(inner_path_parser), flatten)
RECURSIVE many_inner_paths(_)
many_inner_paths(i) ==
    Only({IF r.status = "Error" THEN Ok(i, <<>>)
          ELSE IF r.status # "Ok" THEN r
          ELSE IF r.rest = i THEN Error(i, "Many0")
          ELSE Only({IF more.status # "Ok" THEN more
                     ELSE Ok(more.rest, r.out \o more.out) :
                     more \in {many_inner_paths(r.rest)}}) :
          r \in {inner_path_parser(i)}})

\* delimited(.., .., char(')')) on the tokens parsed, then Optional
optional_close(r) ==
    Only({IF close.status # "Ok" THEN close ELSE Ok(close.rest, Optional(r.out)) :
          close \in {tag(<<")">>, r.rest)}})

\* util::optional_matches(inner_path_parser): "(" inner_path_parser ")",
\* wrapped as Optional
optional_matches(i) ==
    Only({IF open.status # "Ok" THEN open
          ELSE Only({IF r.status # "Ok" THEN r ELSE optional_close(r) :
                     r \in {inner_path_parser(open.rest)}}) :
          open \in {tag(<<"(">>, i)}})

\* many0(optional_matches(inner_path_parser))
RECURSIVE many_optional_inner_paths(_)
many_optional_inner_paths(i) ==
    Only({IF r.status = "Error" THEN Ok(i, <<>>)
          ELSE IF r.status # "Ok" THEN r
          ELSE IF r.rest = i THEN Error(i, "Many0")
          ELSE Only({IF more.status # "Ok" THEN more
                     ELSE Ok(more.rest, <<r.out>> \o more.out) :
                     more \in {many_optional_inner_paths(r.rest)}}) :
          r \in {optional_matches(i)}})

many_optional_after_concrete_inner_swapped(i) ==
    Only({IF first.status # "Ok" THEN first
          ELSE Only({IF second.status # "Ok" THEN second
                     ELSE Ok(second.rest, second.out \o first.out) :
                     second \in {many_optional_inner_paths(first.rest)}}) :
          first \in {many_inner_paths(i)}})

\* map(pair(many_inner_paths, many_optional_inner_paths), append)
many_optional_after_concrete_inner(i) ==
    Only({IF first.status # "Ok" THEN first
          ELSE Only({IF second.status # "Ok" THEN second
                     ELSE Ok(second.rest, first.out \o second.out) :
                     second \in {many_optional_inner_paths(first.rest)}}) :
          first \in {many_inner_paths(i)}})

\* opt(separator_token) after the paths parsed, and the push of its token
push_ending_separator(paths) ==
    Only({IF ending_separator.status # "Ok" THEN ending_separator
          ELSE Ok(ending_separator.rest, paths.out \o ending_separator.out) :
          ending_separator \in {opt(separator_token(paths.rest), paths.rest)}})

\* the first alternative of path_parser:
\* map(tuple((many_optional_after_concrete_inner, opt(separator_token))), push)
paths_then_ending_separator(i) ==
    Only({IF paths.status # "Ok" THEN paths ELSE push_ending_separator(paths) :
          paths \in {many_optional_after_concrete_inner(i)}})

\* the second alternative: map(separator_token, |x| vec![x])
single_separator(i) ==
    Only({IF r.status = "Ok" THEN Ok(r.rest, <<r.out>>) ELSE r :
          r \in {separator_token(i)}})

path_parser_no_ending_separator(i) ==
    alt(<<many_optional_after_concrete_inner(i), single_separator(i)>>)

path_parser_mandatory_after_optional(i) ==
    Only({IF a.status # "Ok" THEN a
          ELSE Only({IF b.status # "Ok" THEN b
                     ELSE push_ending_separator(Ok(b.rest, a.out \o b.out)) :
                     b \in {many_optional_after_concrete_inner(a.rest)}}) :
          a \in {many_optional_after_concrete_inner(i)}})

path_parser(i) == alt(<<paths_then_ending_separator(i), single_separator(i)>>)

\* nom's all_consuming(path_parser), as the tests call it
all_consuming_path_parser(i) ==
    Only({IF r.status # "Ok" THEN r
          ELSE IF r.rest = <<>> THEN r
          ELSE Error(r.rest, "Eof") :
          r \in {path_parser(i)}})

(***************************************************************************)
(* The patterns the parsers are called on.                                 *)
(***************************************************************************)
\* lexemes of route patterns
SEP == <<"/">>

LIT == <<"a">>

CAP == <<"{", "}">>

\* "(" "/" body ")", body a sequence of lexemes
Group(body) == <<"(", "/">> \o Flatten(body) \o <<")">>

GroupBodies == {<<LIT>>, <<LIT, CAP>>, <<CAP, CAP>>, <<SEP, LIT>>}

Groups == {Group(b) : b \in GroupBodies}

Units == {SEP, LIT, CAP} \cup Groups

CaptureAlphabet == {"{", "}", "*", ":", "0", "5", "a"}

IdentAlphabet == INVALID_CHARACTERS \cup {"a", ":", "0", "5"}

Chars(S) == {<<c>> : c \in S}

(***************************************************************************)
(* The state machine: a pattern is chosen, then one parser is called on    *)
(* its text.                                                               *)
(***************************************************************************)
Start(patterns) ==
    /\ pattern \in patterns
    /\ input = Flatten(pattern)
    /\ called = "none"
    /\ result = NotCalled

Call(name, r) ==
    /\ called = "none"
    /\ called' = name
    /\ result' = r
    /\ UNCHANGED <<pattern, input>>

CallValidIdentCharacters == Call("valid_ident_characters", valid_ident_characters(input))

CallCapture == Call("capture", capture(input))

CallPathParser == Call("path_parser", path_parser(input))

CallAllConsuming == Call("all_consuming", all_consuming_path_parser(input))

Init == Start(SeqsUpTo(Units, MaxUnits))

Next == CallPathParser \/ CallAllConsuming

Spec == Init /\ [][Next]_vars

InitCapture == Start(SeqsUpTo(Chars(CaptureAlphabet), MaxCaptureLen))

NextCapture == CallCapture

SpecCapture == InitCapture /\ [][NextCapture]_vars

InitIdent == Start(SeqsUpTo(Chars(IdentAlphabet), MaxIdentLen))

NextIdent == CallValidIdentCharacters

SpecIdent == InitIdent /\ [][NextIdent]_vars

(***************************************************************************)
(* Vocabulary of the properties.                                           *)
(***************************************************************************)
ForbiddenChars ==
    {" ", "\t", "\n", "-", "*", "/", "+", "#", "?", "&", "^", "@", "~", Backquote,
     ";", ",", ".", "|", "\\", "{", "}", "[", "]", "(", ")", "="}

DecimalDigits == <<"0", "1", "2", "3", "4", "5", "6", "7", "8", "9">>

IsDecimalDigit(c) == \E d \in 1..10 : DecimalDigits[d] = c

IsValidIdentifier(s) ==
    /\ s # <<>>
    /\ ~IsDecimalDigit(s[1])
    /\ \A k \in 1..Len(s) : s[k] \notin ForbiddenChars

IsDigitRun(s) == s # <<>> /\ \A k \in 1..Len(s) : IsDecimalDigit(s[k])

\* the number a digit run denotes
RECURSIVE NumberOf(_)
NumberOf(s) ==
    IF s = <<>> THEN 0
    ELSE 10 * NumberOf(Take(s, Len(s) - 1))
         + (CHOOSE d \in 1..10 : DecimalDigits[d] = s[Len(s)]) - 1

InRange(s) == NumberOf(s) <= MaxSections

IsBraced(s) == Len(s) >= 2 /\ s[1] = "{" /\ s[Len(s)] = "}"

Body(s) == SubSeq(s, 2, Len(s) - 1)

\* body is <digits>:<name>, the colon at position k
IsNumberedNamed(body, k) ==
    /\ body[k] = ":"
    /\ IsDigitRun(Take(body, k - 1))
    /\ IsValidIdentifier(Drop(body, k))

ColonOf(body) == CHOOSE k \in 1..Len(body) : IsNumberedNamed(body, k)

HasNumberedShape(body) ==
    \/ IsDigitRun(body)
    \/ \E k \in 1..Len(body) : IsNumberedNamed(body, k)

DigitsOf(body) == IF IsDigitRun(body) THEN body ELSE Take(body, ColonOf(body) - 1)

IsWellFormedCapture(body) ==
    \/ body = <<>>
    \/ body = <<"*">>
    \/ IsValidIdentifier(body)
    \/ IsPrefix(<<"*", ":">>, body) /\ IsValidIdentifier(Drop(body, 2))
    \/ HasNumberedShape(body) /\ InRange(DigitsOf(body))

ExpectedVariant(body) ==
    IF body = <<>> THEN Unnamed
    ELSE IF body = <<"*">> THEN ManyUnnamed
    ELSE IF IsValidIdentifier(body) THEN Named(body)
    ELSE IF IsPrefix(<<"*", ":">>, body) THEN ManyNamed(Drop(body, 2))
    ELSE IF IsDigitRun(body) THEN NumberedUnnamed(NumberOf(body))
    ELSE NumberedNamed(NumberOf(DigitsOf(body)), Drop(body, ColonOf(body)))

HasDoubleSlash(s) == \E k \in 1..(Len(s) - 1) : s[k] = "/" /\ s[k + 1] = "/"

Consumed == Take(input, Len(input) - Len(result.rest))

After(p, k) == SubSeq(p, k + 1, Len(p))

NoTwoAdjacent(p, u) == \A k \in 1..(Len(p) - 1) : ~(p[k] = u /\ p[k + 1] = u)

\* a section: match and capture lexemes in strict alternation
IsSection(b) ==
    /\ b # <<>>
    /\ \A k \in 1..Len(b) : b[k] \in {LIT, CAP}
    /\ NoTwoAdjacent(b, LIT) /\ NoTwoAdjacent(b, CAP)

\* a section in which captures may stand next to each other
IsSectionWithAdjacentCaptures(b) ==
    /\ b # <<>>
    /\ \A k \in 1..Len(b) : b[k] \in {LIT, CAP}
    /\ NoTwoAdjacent(b, LIT)

\* zero or more mandatory segments, each "/" and a section
IsMandatoryPart(p) ==
    \/ p = <<>>
    \/ /\ p[1] = SEP /\ p[Len(p)] # SEP
       /\ \A k \in 1..Len(p) : p[k] \in {SEP, LIT, CAP}
       /\ NoTwoAdjacent(p, SEP) /\ NoTwoAdjacent(p, LIT) /\ NoTwoAdjacent(p, CAP)

IsMandatoryPartWithAdjacentCaptures(p) ==
    \/ p = <<>>
    \/ /\ p[1] = SEP /\ p[Len(p)] # SEP
       /\ \A k \in 1..Len(p) : p[k] \in {SEP, LIT, CAP}
       /\ NoTwoAdjacent(p, SEP) /\ NoTwoAdjacent(p, LIT)

BodyOf(u) == CHOOSE b \in GroupBodies : Group(b) = u

IsGoodGroup(u) == u \in Groups /\ IsSection(BodyOf(u))

IsGroupWithAdjacentCaptures(u) ==
    u \in Groups /\ IsSectionWithAdjacentCaptures(BodyOf(u))

\* p[1..m] mandatory segments, p[m+1..g] optional groups
IsSegmentsThenGroups(p, m, g) ==
    /\ IsMandatoryPart(Take(p, m))
    /\ \A k \in (m + 1)..g : IsGoodGroup(p[k])

\* mandatory segments, optional groups, an optional final "/"
IsWellFormedPattern(p) ==
    \E m \in 0..Len(p) : \E g \in m..Len(p) :
        IsSegmentsThenGroups(p, m, g) /\ After(p, g) \in {<<>>, <<SEP>>}

\* the same shape, captures allowed next to each other
IsPatternWithAdjacentCaptures(p) ==
    \E m \in 0..Len(p) : \E g \in m..Len(p) :
        /\ IsMandatoryPartWithAdjacentCaptures(Take(p, m))
        /\ \A k \in (m + 1)..g : IsGroupWithAdjacentCaptures(p[k])
        /\ After(p, g) \in {<<>>, <<SEP>>}

SectionToken(u) == IF u = LIT THEN Match(LIT) ELSE Capture(Unnamed)

\* the token a lexeme of a well-formed pattern stands for
TokenOf(u) ==
    IF u = SEP THEN Separator
    ELSE IF u \in {LIT, CAP} THEN SectionToken(u)
    ELSE Optional(<<Separator>> \o [k \in 1..Len(BodyOf(u)) |-> SectionToken(BodyOf(u)[k])])

Tokens(p) == [k \in 1..Len(p) |-> TokenOf(p[k])]

\* where the first pair of adjacent captures of p is: the lexeme index of the
\* first capture at the top level, or of the group that holds the pair
HoldsAdjacentCaptures(p, k) ==
    \/ k < Len(p) /\ p[k] = CAP /\ p[k + 1] = CAP
    \/ p[k] = Group(<<CAP, CAP>>)

HasAdjacentCaptures(p) == \E k \in 1..Len(p) : HoldsAdjacentCaptures(p, k)

FirstAdjacent(p) ==
    CHOOSE k \in 1..Len(p) :
        HoldsAdjacentCaptures(p, k) /\ \A j \in 1..(k - 1) : ~HoldsAdjacentCaptures(p, j)

\* the suffix of the text of p that starts at the second capture of the pair
FromSecondCapture(p) ==
    IF p[FirstAdjacent(p)] = CAP THEN Flatten(After(p, FirstAdjacent(p)))
    ELSE CAP \o <<")">> \o Flatten(After(p, FirstAdjacent(p)))

\* mandatory segments, one or more optional groups ending at lexeme g, then
\* one more mandatory segment
IsSegmentAfterGroups(p, g) ==
    /\ g + 1 < Len(p)
    /\ \E m \in 0..(g - 1) : IsSegmentsThenGroups(p, m, g)
    /\ p[g + 1] = SEP
    /\ IsSection(After(p, g + 1))

LastGroup(p) == CHOOSE g \in 1..Len(p) : IsSegmentAfterGroups(p, g)

HasSegmentAfterGroups(p) == \E g \in 1..Len(p) : IsSegmentAfterGroups(p, g)

NoSameKindAdjacent(ts) ==
    \A k \in 1..(Len(ts) - 1) :
        ts[k].kind \in {"Match", "Capture"} => ts[k + 1].kind # ts[k].kind

(***************************************************************************)
(* The properties.                                                         *)
(***************************************************************************)

\* C10: valid_ident_characters fails exactly when the input is empty or its
\* first character is a decimal digit or a forbidden character; otherwise it
\* returns the longest prefix without a forbidden character and the rest of
\* the input, so a valid identifier is returned whole with an empty rest.
C10_ValidIdentCharacters ==
    called = "valid_ident_characters" =>
        IF input = <<>> \/ IsDecimalDigit(input[1]) \/ input[1] \in ForbiddenChars
        THEN result.status = "Error"
        ELSE /\ result.status = "Ok"
             /\ result.out \o result.rest = input
             /\ result.out # <<>>
             /\ \A k \in 1..Len(result.out) : result.out[k] \notin ForbiddenChars
             /\ result.rest # <<>> => result.rest[1] \in ForbiddenChars
             /\ IsValidIdentifier(input) => result.rest = <<>> /\ result.out = input

C10_Witness ==
    /\ called = "valid_ident_characters"
    /\ result.status = "Ok"
    /\ result.rest # <<>>

\* C1: capture maps each of the six well-formed bracketed shapes to its own
\* variant, with an empty remainder.
C1_CaptureShapes ==
    called = "capture" /\ IsBraced(input) /\ IsWellFormedCapture(Body(input)) =>
        /\ result.status = "Ok"
        /\ result.rest = <<>>
        /\ result.out = Capture(ExpectedVariant(Body(input)))

C1_Witness ==
    /\ called = "capture"
    /\ result.status = "Ok"
    /\ result.out.cv.variant = "NumberedNamed"
    /\ result.out.cv.sections > 0

\* C9: when the digit run of a numbered capture is out of the range of the
\* sections type, capture returns a parse failure to its caller.
C9_OutOfRangeIsAnError ==
    /\ called = "capture"
    /\ IsBraced(input)
    /\ HasNumberedShape(Body(input))
    /\ ~InRange(DigitsOf(Body(input)))
    => result.status = "Error"

\* C2: on mandatory segments, then optional groups, then an optional final
\* "/", path_parser consumes the whole input and returns the segments' tokens
\* flattened, one Optional per group and the final Separator, in input order.
C2_WellFormedPatternTokens ==
    called = "path_parser" /\ IsWellFormedPattern(pattern) =>
        /\ result.status = "Ok"
        /\ result.rest = <<>>
        /\ result.out = Tokens(pattern)

C2_Witness ==
    /\ called = "path_parser"
    /\ IsWellFormedPattern(pattern)
    /\ Len(pattern) = 5
    /\ pattern[1] = SEP /\ pattern[3] \in Groups /\ pattern[4] \in Groups
    /\ pattern[5] = SEP
    /\ result.status = "Ok"

\* C3 as stated: whenever a section holds two adjacent captures, the
\* full-consumption parse fails with an end-of-input error whose remaining
\* input is the suffix that starts at the second capture.
C3_RemainderAtSecondCapture ==
    /\ called = "all_consuming"
    /\ IsPatternWithAdjacentCaptures(pattern)
    /\ HasAdjacentCaptures(pattern)
    => /\ result.status = "Error"
       /\ result.kind = "Eof"
       /\ result.rest = FromSecondCapture(pattern)

\* C3 amended: when the text before the second capture is a sequence of
\* well-formed mandatory segments, the full-consumption parse fails with an
\* end-of-input error whose remaining input starts at the second capture;
\* when the pair is inside an optional group that follows well-formed
\* segments and groups, it fails with an end-of-input error whose remaining
\* input starts at that group's opening parenthesis.
C3_AdjacentCapturesRejected ==
    called = "all_consuming" =>
        /\ \A k \in 1..(Len(pattern) - 1) :
              /\ IsMandatoryPart(Take(pattern, k))
              /\ pattern[k] = CAP /\ pattern[k + 1] = CAP
              => /\ result.status = "Error"
                 /\ result.kind = "Eof"
                 /\ result.rest = Flatten(After(pattern, k))
        /\ \A g \in 1..Len(pattern) :
              /\ \E m \in 0..(g - 1) : IsSegmentsThenGroups(pattern, m, g - 1)
              /\ pattern[g] = Group(<<CAP, CAP>>)
              => /\ result.status = "Error"
                 /\ result.kind = "Eof"
                 /\ result.rest = Flatten(After(pattern, g - 1))

C3_Witness ==
    /\ called = "all_consuming"
    /\ Len(pattern) >= 4
    /\ Take(pattern, 4) = <<SEP, LIT, CAP, CAP>>
    /\ result.status = "Error"

\* C4 as stated: a mandatory segment after an optional group makes the
\* full-consumption parse fail, and path_parser leaves that whole segment,
\* its leading separator included, unconsumed.
C4_RemainderIsWholeSegment ==
    HasSegmentAfterGroups(pattern) =>
        /\ called = "all_consuming" => result.status = "Error"
        /\ called = "path_parser" =>
              result.rest = Flatten(After(pattern, LastGroup(pattern)))

\* C4 amended: the full-consumption parse fails with an end-of-input error,
\* and path_parser consumes the segment's leading "/" as the final Separator
\* and leaves the segment's section, without the separator, unconsumed.
C4_SegmentAfterGroupRejected ==
    HasSegmentAfterGroups(pattern) =>
        /\ called = "all_consuming" =>
              /\ result.status = "Error"
              /\ result.kind = "Eof"
              /\ result.rest = Flatten(After(pattern, LastGroup(pattern) + 1))
        /\ called = "path_parser" =>
              /\ result.status = "Ok"
              /\ result.rest = Flatten(After(pattern, LastGroup(pattern) + 1))
              /\ result.out = Tokens(Take(pattern, LastGroup(pattern) + 1))

C4_Witness ==
    /\ called = "path_parser"
    /\ HasSegmentAfterGroups(pattern)
    /\ pattern[1] = SEP
    /\ result.rest = LIT

\* C5: the full-consumption parse rejects every pattern that does not begin
\* with "/" or "(", every accepted pattern yields at least one token, and
\* "/" yields exactly [Separator].
C5_MustStartWithSeparator ==
    called = "all_consuming" =>
        /\ input = <<>> \/ input[1] \notin {"/", "("} => result.status = "Error"
        /\ result.status = "Ok" => result.out # <<>>
        /\ input = <<"/">> => result.status = "Ok" /\ result.out = <<Separator>>

\* C6: in the tokens path_parser returns, at the top level and inside each
\* Optional, a Match is never directly followed by a Match nor a Capture by
\* a Capture.
C6_KindsAlternate ==
    called = "path_parser" /\ result.status = "Ok" =>
        /\ NoSameKindAdjacent(result.out)
        /\ \A k \in 1..Len(result.out) :
              result.out[k].kind = "Optional" => NoSameKindAdjacent(result.out[k].inner)

C6_Witness ==
    /\ called = "path_parser"
    /\ result.status = "Ok"
    /\ Len(result.out) = 5
    /\ result.out[2].kind = "Match" /\ result.out[3].kind = "Capture"
    /\ result.out[4].kind = "Match"
    /\ result.out[5].kind = "Optional" /\ Len(result.out[5].inner) = 3

\* C7: in the tokens path_parser returns, after an Optional at the top level
\* come only Optionals and at most one Separator, which is the last token.
C7_NothingMandatoryAfterOptional ==
    called = "path_parser" /\ result.status = "Ok" =>
        \A j \in 1..Len(result.out) : \A k \in (j + 1)..Len(result.out) :
            result.out[j].kind = "Optional" =>
                \/ result.out[k].kind = "Optional"
                \/ result.out[k].kind = "Separator" /\ k = Len(result.out)

C7_Witness ==
    /\ called = "path_parser"
    /\ result.status = "Ok"
    /\ result.rest # <<>>
    /\ Len(result.out) = 4
    /\ result.out[2].kind = "Optional" /\ result.out[3].kind = "Optional"
    /\ result.out[4].kind = "Separator"

\* C8: a pattern that contains "//" fails the full-consumption parse, and
\* path_parser never consumes both separators of a "//".
C8_DoubleSlashRejected ==
    /\ called = "all_consuming" /\ HasDoubleSlash(input) => result.status = "Error"
    /\ called = "path_parser" /\ result.status = "Ok" => ~HasDoubleSlash(Consumed)

C8_Witness ==
    /\ called = "all_consuming"
    /\ HasDoubleSlash(input)
    /\ result.status = "Error"
    /\ result.rest # <<>> /\ Len(result.rest) < Len(input)
    /\ result.rest[1] = "/"

=============================================================================
